---------------------------- MODULE Spec2Model ----------------------------
(***************************************************************************)
(* zentags: a tag graph (DAG, a networkx DiGraph with a cycle guard on     *)
(* add_edge), the FileSystem that builds it from declaration lines, and    *)
(* the FileBrowser that narrows a result set by applying tags.             *)
(*                                                                         *)
(* Identifiers are strings.  A token of a line is written here in its      *)
(* split("/") form, a non-empty sequence of segments; the node identifiers *)
(* are built from the segments exactly as itertools.accumulate builds     *)
(* them, by string concatenation with "/".                                *)
(***************************************************************************)
EXTENDS Naturals, Sequences, FiniteSets, TLC

VARIABLES source_file, tagged, pc, nlines, loaded, applied_tags, useful_tags, last_op, results

vars == <<source_file, tagged, pc, nlines, loaded, applied_tags, useful_tags, last_op, results>>

(* ------------------------------ bounds --------------------------------- *)

MaxLines == 2

MaxApplied == 3

(* ------------------------------ inputs --------------------------------- *)

\* The tokens a generated declaration line may hold, in split("/") form.
PathPool == {<<"a">>, <<"b">>, <<"c">>, <<"a", "b">>}

\* The two declaration lines of the documented example scenario.
ExampleFile ==
    << <<<<"docs", "report.pdf">>, <<"documents">>, <<"work">>>>,
       <<<<"docs", "photo.png">>, <<"documents">>, <<"personal">>>> >>

\* A line after strip() and split(" "): <<>> stands for a blank or comment
\* line, otherwise the first token is the item and the rest are its tags.
\* A generated line holds an item alone or an item and one tag; the lines
\* of the example file hold two tags.
Lines ==
    {<<>>} \cup {<<item>> : item \in PathPool}
           \cup {<<item, tag>> : <<item, tag>> \in PathPool \X PathPool}

\* The lines that may come next in the file being read: any of Lines while
\* a generated file has room, the next line of the example file otherwise.
NextLines(file, n) ==
    IF file = "example"
    THEN IF n < Len(ExampleFile) THEN {ExampleFile[n + 1]} ELSE {}
    ELSE IF n < MaxLines THEN Lines ELSE {}

\* Whether the file being read may end after n lines.
EndOfFile(file, n) == file = "example" => n = Len(ExampleFile)

\* A tag no declaration line mentions.
UnknownTag == "zz"

(* --------------------------- graph (networkx) -------------------------- *)

EmptyGraph == [nodes |-> {}, edges |-> {}]

HasNode(G, n) == n \in G.nodes

HasEdge(G, u, v) == <<u, v>> \in G.edges

Successors(G, n) == {e[2] : e \in {f \in G.edges : f[1] = n}}

Predecessors(G, n) == {e[1] : e \in {f \in G.edges : f[2] = n}}

OutDegree(G, n) == Cardinality(Successors(G, n))

InDegree(G, n) == Cardinality(Predecessors(G, n))

\* The nodes reached from the set S by following edges, S included.
RECURSIVE ReachFrom(_, _)
ReachFrom(G, S) ==
    LET T == S \cup UNION {Successors(G, n) : n \in S}
    IN  IF T = S THEN S ELSE ReachFrom(G, T)

\* nx.has_path: a node has a path (of length zero) to itself.
HasPath(G, source, target) == target \in ReachFrom(G, {source})

\* nx.descendants: everything reachable from source, source itself excluded.
Descendants(G, source) == ReachFrom(G, {source}) \ {source}

(* ------------------------------ DAG ------------------------------------ *)

\* Mutant of AddEdge: the edge is added first and the cycle looked for
\* afterwards, with nothing undone when it is found.
AddEdgePostHoc(G, u, v) ==
    LET H == [nodes |-> G.nodes \cup {u, v}, edges |-> G.edges \cup {<<u, v>>}]
    IN  IF HasNode(G, u) /\ HasNode(G, v) /\ (HasEdge(G, v, u) \/ HasPath(G, v, u))
        THEN [ok |-> FALSE, g |-> H]
        ELSE [ok |-> TRUE, g |-> H]

\* Mutant of AddEdge: only the direct reverse edge is looked for.
AddEdgeDirectOnly(G, u, v) ==
    IF HasNode(G, u) /\ HasNode(G, v) /\ HasEdge(G, v, u)
    THEN [ok |-> FALSE, g |-> G]
    ELSE [ok |-> TRUE,
          g  |-> [nodes |-> G.nodes \cup {u, v}, edges |-> G.edges \cup {<<u, v>>}]]

\* DAG.add_edge: raises when both endpoints are nodes and v reaches u;
\* otherwise DiGraph.add_edge adds the edge and any missing endpoint.
AddEdge(G, u, v) ==
    IF HasNode(G, u) /\ HasNode(G, v) /\ (HasEdge(G, v, u) \/ HasPath(G, v, u))
    THEN [ok |-> FALSE, g |-> G]
    ELSE [ok |-> TRUE,
          g  |-> [nodes |-> G.nodes \cup {u, v}, edges |-> G.edges \cup {<<u, v>>}]]

(* ---------------------------- FileSystem ------------------------------- *)

\* itertools.accumulate(items, lambda x, y: f"{x}/{y}"): the i-th prefix.
RECURSIVE Accumulate(_, _)
Accumulate(items, i) ==
    IF i = 1 THEN items[1] ELSE Accumulate(items, i - 1) \o "/" \o items[i]

\* Mutant of PathOf: a token stands for its last segment only.
PathOfLastSegment(items) == items[Len(items)]

\* The identifier a token stands for: "/".join(items).
PathOf(items) == Accumulate(items, Len(items))

\* Mutant of IngestContainerPath: the prefixes of a path are not linked.
IngestNothing(G, items) == [ok |-> TRUE, g |-> G]

\* __ingest_container_path from the i-th prefix on: link each prefix to the
\* next; the first add_edge that raises ends it, earlier edges stay.
RECURSIVE IngestFrom(_, _, _)
IngestFrom(G, items, i) ==
    IF i > Len(items) THEN [ok |-> TRUE, g |-> G]
    ELSE LET r == AddEdge(G, Accumulate(items, i - 1), Accumulate(items, i))
         IN  IF r.ok THEN IngestFrom(r.g, items, i + 1) ELSE r

IngestContainerPath(G, items) == IngestFrom(G, items, 2)

\* The loop over the tags of __parse_line, from the i-th token on.
RECURSIVE ParseTags(_, _, _)
ParseTags(G, line, i) ==
    IF i > Len(line) THEN [ok |-> TRUE, g |-> G]
    ELSE LET r == IngestContainerPath(G, line[i])
         IN  IF ~r.ok THEN r
             ELSE LET s == AddEdge(r.g, PathOf(line[i]), PathOf(line[1]))
                  IN  IF s.ok THEN ParseTags(s.g, line, i + 1) ELSE s

\* __parse_line: blank and comment lines are skipped.
ParseLine(G, line) ==
    IF line = <<>> THEN [ok |-> TRUE, g |-> G]
    ELSE LET r == IngestContainerPath(G, line[1])
         IN  IF r.ok THEN ParseTags(r.g, line, 2) ELSE r

\* load: the lines in order; the first line that raises aborts the load.
RECURSIVE LoadFrom(_, _, _)
LoadFrom(G, file, i) ==
    IF i > Len(file) THEN [ok |-> TRUE, g |-> G]
    ELSE LET r == ParseLine(G, file[i])
         IN  IF r.ok THEN LoadFrom(r.g, file, i + 1) ELSE r

Load(G, file) == LoadFrom(G, file, 1)

\* Mutant of GetLeafNodesTaggedBy: each tag's leaf nodes replace the set
\* instead of being intersected with it, so the last tag decides.
GetLeafNodesOfLastTag(G, tags) ==
    IF tags = <<>> \/ \E i \in 1..Len(tags) : ~HasNode(G, tags[i])
    THEN [ok |-> FALSE, val |-> {}]
    ELSE [ok |-> TRUE,
          val |-> {n \in Descendants(G, tags[Len(tags)]) : OutDegree(G, n) = 0}]

\* Mutant of GetLeafNodesTaggedBy: a tag that is not a node has no
\* descendants instead of raising.
GetLeafNodesLenient(G, tags) ==
    [ok |-> TRUE,
     val |-> {n \in G.nodes : /\ OutDegree(G, n) = 0
                              /\ \A i \in 1..Len(tags) : n \in Descendants(G, tags[i])}]

\* get_leaf_nodes_tagged_by: nx.descendants raises for a tag that is not a
\* node, and tags[0] raises for an empty list.
LeafDescendants(G, tag) == {n \in Descendants(G, tag) : OutDegree(G, n) = 0}

RECURSIVE LeafFold(_, _, _, _)
LeafFold(G, tags, i, leaf_nodes) ==
    IF i > Len(tags) THEN [ok |-> TRUE, val |-> leaf_nodes]
    ELSE IF ~HasNode(G, tags[i]) THEN [ok |-> FALSE, val |-> {}]
    ELSE LeafFold(G, tags, i + 1, leaf_nodes \cap LeafDescendants(G, tags[i]))

GetLeafNodesTaggedBy(G, tags) ==
    IF tags = <<>> \/ ~HasNode(G, tags[1]) THEN [ok |-> FALSE, val |-> {}]
    ELSE LeafFold(G, tags, 2, LeafDescendants(G, tags[1]))

\* get_items_immediately_tagged_by([tag]).
GetItemsImmediatelyTaggedBy(G, tag) == Successors(G, tag)

\* Mutant of GetRootTags: the degree is taken on the wrong side.
GetRootTagsByOutDegree(G) == {n \in G.nodes : OutDegree(G, n) = 0}

\* get_root_tags.
GetRootTags(G) == {n \in G.nodes : InDegree(G, n) = 0}

\* Mutant of GetItemIsTaggedBy: the path is looked for from the item to the tag.
GetItemIsTaggedByReversed(G, item, tag) == HasPath(G, item, tag)

\* get_item_is_tagged_by: nx.has_path(self.tagged, tag, item).
GetItemIsTaggedBy(G, item, tag) == HasPath(G, tag, item)

(* ---------------------------- FileBrowser ------------------------------ *)

\* list(self.applied_tags): the orders in which a set may be iterated.
RECURSIVE Orders(_)
Orders(S) ==
    IF S = {} THEN {<<>>}
    ELSE UNION {{Append(o, x) : o \in Orders(S \ {x})} : x \in S}

\* Mutant of SubmitQuery: nothing applied means no filter, every leaf item.
SubmitQueryUnfiltered(G, tags) ==
    IF Len(tags) = 0
    THEN [ok |-> TRUE, val |-> {n \in G.nodes : OutDegree(G, n) = 0}]
    ELSE GetLeafNodesTaggedBy(G, tags)

\* submit_query, tags being list(self.applied_tags): the empty result when
\* nothing is applied (the code returns {}, an empty dict, which holds no
\* items), otherwise get_leaf_nodes_tagged_by (which may raise).
SubmitQuery(G, tags) ==
    IF Len(tags) = 0 THEN [ok |-> TRUE, val |-> {}]
    ELSE GetLeafNodesTaggedBy(G, tags)

\* Mutant of IsUseful: the emptiness test is left out.
IsUsefulOrEmpty(new_query_result, file_results) ==
    new_query_result \subseteq file_results

\* The test of add_tag that keeps a candidate in useful_tags.
IsUseful(new_query_result, file_results) ==
    new_query_result \subseteq file_results /\ Cardinality(new_query_result) > 0

\* Mutant of Candidates: the successors of the tag are not added.
CandidatesNoChildren(G, useful, tag) == useful \ {tag}

\* Mutant of Candidates: the applied tag is not removed.
CandidatesKeepTag(G, useful, tag) ==
    useful \cup GetItemsImmediatelyTaggedBy(G, tag)

\* useful_tags after the removal of the applied tag and the update with
\* the items it immediately tags.
Candidates(G, useful, tag) ==
    (useful \ {tag}) \cup GetItemsImmediatelyTaggedBy(G, tag)

(* ------------------------------ state ---------------------------------- *)

Op(name, u, v, ok, line) == [op |-> name, u |-> u, v |-> v, ok |-> ok, line |-> line]

\* The program before its first line is read; tags.txt is a generated file
\* or the example file.
Init ==
    /\ source_file \in {"generated", "example"}
    /\ tagged = EmptyGraph
    /\ pc = "load"
    /\ nlines = 0
    /\ loaded = <<>>
    /\ applied_tags = {}
    /\ useful_tags = {}
    /\ last_op = Op("init", "", "", TRUE, <<>>)
    /\ results = {}

\* One iteration of load: __parse_line on the next line of the file.  A
\* raise leaves what the line had added so far and ends the program.
ParseStep(line) ==
    /\ pc = "load"
    /\ line \in NextLines(source_file, nlines)
    /\ LET r == ParseLine(tagged, line)
       IN  /\ tagged' = r.g
           /\ pc' = IF r.ok THEN "load" ELSE "aborted"
           /\ last_op' = Op("parse_line", "", "", r.ok, line)
    /\ nlines' = nlines + 1
    /\ UNCHANGED <<source_file, applied_tags, useful_tags, results>>

Parse(line) == ParseStep(line) /\ UNCHANGED loaded

\* The file has ended and is closed: Shell(fs) builds FileBrowser(fs).
NewBrowser ==
    /\ pc = "load"
    /\ EndOfFile(source_file, nlines)
    /\ pc' = "browse"
    /\ applied_tags' = {}
    /\ useful_tags' = GetRootTags(tagged)
    /\ last_op' = Op("new_browser", "", "", TRUE, <<>>)
    /\ results' = {}
    /\ nlines' = 0
    /\ UNCHANGED <<source_file, tagged, loaded>>

\* Whether add_tag was given a tag that useful_tags offered (kept in last_op).
Offered(useful, tag) == IF tag \in useful THEN "offered" ELSE "other"

\* FileBrowser.add_tag(tag).  The tag is applied first, so a raise of the
\* query leaves it applied and useful_tags as it was.  Every candidate is a
\* node (a root tag or a successor), so once the query has returned the
\* calls of the filter loop, over the same tags and a node, return too; the
\* order is that of the one set both iterate.
AddTag(tag) ==
    /\ pc = "browse"
    /\ Cardinality(applied_tags) < MaxApplied
    /\ applied_tags' = applied_tags \cup {tag}
    /\ \E order \in Orders(applied_tags \cup {tag}) :
         LET file_results == SubmitQuery(tagged, order)
             candidates == Candidates(tagged, useful_tags, tag)
         IN  IF ~file_results.ok
             THEN /\ useful_tags' = useful_tags
                  /\ last_op' = Op("add_tag", tag, Offered(useful_tags, tag), FALSE, <<>>)
             ELSE /\ useful_tags' =
                        {c \in candidates :
                            IsUseful(GetLeafNodesTaggedBy(tagged, Append(order, c)).val,
                                     file_results.val)}
                  /\ last_op' = Op("add_tag", tag, Offered(useful_tags, tag), TRUE, <<>>)
    /\ results' = {}
    /\ UNCHANGED <<source_file, tagged, pc, nlines, loaded>>

\* FileBrowser.submit_query(), as Shell.ls_files calls it; results holds
\* what it returned.
Query ==
    /\ pc = "browse"
    /\ last_op.op # "submit_query"
    /\ \E order \in Orders(applied_tags) :
         LET r == SubmitQuery(tagged, order)
         IN  /\ results' = r.val
             /\ last_op' = Op("submit_query", "", "", r.ok, <<>>)
    /\ UNCHANGED <<source_file, tagged, pc, nlines, loaded, applied_tags, useful_tags>>

Next ==
    \/ \E line \in Lines \cup {ExampleFile[i] : i \in 1..Len(ExampleFile)} : Parse(line)
    \/ NewBrowser
    \/ \E tag \in tagged.nodes \cup {UnknownTag} : AddTag(tag)
    \/ Query

Spec == Init /\ [][Next]_vars

(* ----------------- add_edge called directly on a DAG -------------------- *)

\* The identifiers add_edge is called with.
DagIds == {"a", "b", "c"}

\* The identifiers add_edge is called with on the graph of the example file.
ExampleDagIds == {"docs", "docs/report.pdf", "work"}

\* A DAG that is empty, or the one the load of the example file has built.
InitDag ==
    /\ source_file \in {"none", "example"}
    /\ tagged = IF source_file = "example" THEN Load(EmptyGraph, ExampleFile).g
                ELSE EmptyGraph
    /\ pc = "dag"
    /\ nlines = 0
    /\ loaded = <<>>
    /\ applied_tags = {}
    /\ useful_tags = {}
    /\ last_op = Op("init", "", "", TRUE, <<>>)
    /\ results = {}

\* tagged.add_edge(u, v).
DagAddEdge(u, v) ==
    /\ pc = "dag"
    /\ LET r == AddEdge(tagged, u, v)
       IN  /\ tagged' = r.g
           /\ last_op' = Op("add_edge", u, v, r.ok, <<>>)
    /\ UNCHANGED <<source_file, pc, nlines, loaded, applied_tags, useful_tags, results>>

NextDag ==
    \E u, v \in (IF source_file = "example" THEN ExampleDagIds ELSE DagIds) :
        DagAddEdge(u, v)

SpecDag == InitDag /\ [][NextDag]_vars

(* ------------------- load called twice on one file --------------------- *)

InitReload == Init /\ source_file = "generated"

\* One iteration of the first load; loaded keeps the lines read so far.
ParseFirst(line) == ParseStep(line) /\ loaded' = Append(loaded, line)

\* fs.load(source_file) once more, after the first load has returned.
Reload ==
    /\ pc = "load"
    /\ LET r == Load(tagged, loaded)
       IN  /\ tagged' = r.g
           /\ last_op' = Op("reload", "", "", r.ok, <<>>)
    /\ pc' = "reloaded"
    /\ UNCHANGED <<source_file, nlines, loaded, applied_tags, useful_tags, results>>

NextReload ==
    \/ \E line \in Lines : ParseFirst(line)
    \/ Reload

SpecReload == InitReload /\ [][NextReload]_vars

(* ------------- sessions that only apply offered tags ------------------ *)

\* add_tag(tag) typed by a user who picks one of the tags the shell lists.
AddOfferedTag(tag) == tag \in useful_tags /\ AddTag(tag)

NextOffered ==
    \/ \E line \in Lines \cup {ExampleFile[1], ExampleFile[2]} : Parse(line)
    \/ NewBrowser
    \/ \E tag \in tagged.nodes : AddOfferedTag(tag)
    \/ Query

SpecOffered == Init /\ [][NextOffered]_vars

(* ------------- the two tagging queries on a loaded graph -------------- *)

\* fs.get_leaf_nodes_tagged_by([tag]) and fs.get_item_is_tagged_by(item, tag)
\* on the graph loaded so far; results and last_op.ok keep what they returned.
TaggedQueries(item, tag) ==
    /\ pc = "load"
    /\ results' = GetLeafNodesTaggedBy(tagged, <<tag>>).val
    /\ last_op' = Op("is_tagged_by", item, tag, GetItemIsTaggedBy(tagged, item, tag), <<>>)
    /\ pc' = "asked"
    /\ UNCHANGED <<source_file, tagged, nlines, loaded, applied_tags, useful_tags>>

NextQueries ==
    \/ \E line \in Lines \cup {ExampleFile[1], ExampleFile[2]} : Parse(line)
    \/ \E item \in tagged.nodes, tag \in tagged.nodes : TaggedQueries(item, tag)

SpecQueries == Init /\ [][NextQueries]_vars

(* ------------- a record with two tags, after a load ------------------- *)

InitOrder == Init /\ source_file = "generated"

\* __parse_line on a line "item t1 t2", met after the lines read so far.
ParseTwoTags(item, t1, t2) ==
    /\ pc = "load"
    /\ LET line == <<item, t1, t2>>
           r == ParseLine(tagged, line)
       IN  /\ tagged' = r.g
           /\ last_op' = Op("parse_line", "", "", r.ok, line)
    /\ pc' = "ingested"
    /\ nlines' = nlines + 1
    /\ UNCHANGED <<source_file, loaded, applied_tags, useful_tags, results>>

NextOrder ==
    \/ \E line \in Lines : Parse(line)
    \/ \E item \in PathPool, t1 \in PathPool, t2 \in PathPool :
          ParseTwoTags(item, t1, t2)

SpecOrder == InitOrder /\ [][NextOrder]_vars

(* ------------------------------ claims --------------------------------- *)

\* Some node reaches itself along one or more edges (a self-loop included).
HasCycle(G) == \E n \in G.nodes : n \in ReachFrom(G, Successors(G, n))

\* leaf_items_tagged_by as the specification states it: the out-degree-zero
\* nodes that are descendants of every one of the tags.
LeafItemsTaggedBy(G, tags) ==
    {n \in G.nodes : /\ \A m \in G.nodes : <<n, m>> \notin G.edges
                     /\ \A t \in tags : n # t /\ HasPath(G, t, n)}

\* What query() may return or raise in the current state, over the orders
\* in which applied_tags may be listed.
QueryOutcomes(G, applied) == {SubmitQuery(G, o) : o \in Orders(applied)}

\* C1: after every add_edge call that did not raise, the graph has no
\* directed cycle and no self-loop.
C1_AcyclicAfterAddEdge ==
    (last_op.op = "add_edge" /\ last_op.ok) => ~HasCycle(tagged)

\* C2: an add_edge call that raises leaves the node set and the edge set as
\* they were before the call.
C2_RaiseLeavesGraph ==
    [][(last_op'.op = "add_edge" /\ ~last_op'.ok) => tagged' = tagged]_vars

\* An add_edge(u, v) between two different nodes has raised.
C2_Witness ==
    /\ pc = "dag"
    /\ last_op.op = "add_edge" /\ ~last_op.ok /\ last_op.u # last_op.v
    /\ tagged.edges # {}

\* C3 as stated: in every reachable session state, the initial one
\* included, and for every t of useful_tags, query() after add_tag(t) is a
\* subset of query() before it.
C3_QuerySubsetEverywhere ==
    [][(last_op'.op = "add_tag" /\ last_op'.v = "offered")
         => \A before \in QueryOutcomes(tagged, applied_tags) :
              \A after \in QueryOutcomes(tagged', applied_tags') :
                 before.ok /\ after.ok /\ after.val \subseteq before.val]_vars

\* C3 amended: in every reachable session state where applied_tags is not
\* empty, and for every t of useful_tags, query() after add_tag(t) is a
\* subset of query() before it, and raises only if it raised before.
C3_QuerySubsetOnceApplied ==
    [][(last_op'.op = "add_tag" /\ last_op'.v = "offered" /\ applied_tags # {})
         => \A before \in QueryOutcomes(tagged, applied_tags) :
              \A after \in QueryOutcomes(tagged', applied_tags') :
                 (before.ok <=> after.ok) /\ after.val \subseteq before.val]_vars

\* add_tag(t), t offered by useful_tags and not yet applied, has returned in
\* a session that had a tag applied, and narrowed a non-empty result.
C3_Witness ==
    /\ last_op.op = "add_tag" /\ last_op.v = "offered" /\ last_op.ok
    /\ Cardinality(applied_tags) >= 2
    /\ LeafItemsTaggedBy(tagged, applied_tags) # {}
    /\ LeafItemsTaggedBy(tagged, applied_tags)
         # LeafItemsTaggedBy(tagged, applied_tags \ {last_op.u})

\* C4: after a successful add_tag, every t of useful_tags has
\* leaf_items_tagged_by(applied_tags with t) non-empty.
C4_FrontierSafety ==
    (last_op.op = "add_tag" /\ last_op.ok)
      => \A t \in useful_tags :
           /\ applied_tags \cup {t} \subseteq tagged.nodes
           /\ LeafItemsTaggedBy(tagged, applied_tags \cup {t}) # {}

\* A successful add_tag has left a tag in useful_tags and dropped a
\* candidate that would have emptied the result.
C4_Witness ==
    /\ last_op.op = "add_tag" /\ last_op.ok
    /\ useful_tags # {}
    /\ \E c \in Successors(tagged, last_op.u) :
         LeafItemsTaggedBy(tagged, applied_tags \cup {c}) = {}

\* C5: root_tags() is exactly the set of nodes with in-degree zero, and a
\* new session has applied_tags empty and useful_tags equal to it.
C5_RootTags ==
    LET roots == {n \in tagged.nodes : \A m \in tagged.nodes : <<m, n>> \notin tagged.edges}
    IN  /\ GetRootTags(tagged) = roots
        /\ last_op.op = "new_browser" => (applied_tags = {} /\ useful_tags = roots)

\* A session has been created over a graph that has root tags and nodes
\* that are not root tags.
C5_Witness ==
    /\ last_op.op = "new_browser"
    /\ useful_tags # {}
    /\ useful_tags # tagged.nodes

\* C6: loading again the lines whose first load completed returns without
\* error and leaves the node set and the edge set as the first load left them.
C6_ReloadIdempotent ==
    [][last_op'.op = "reload" => (last_op'.ok /\ tagged' = tagged)]_vars

\* C7 as stated: after the example file is loaded, root_tags() is exactly
\* documents, work and personal.
C7_ExampleRootTagsAsStated ==
    (source_file = "example" /\ last_op.op = "new_browser")
      => GetRootTags(tagged) = {"documents", "work", "personal"}

\* C7 amended: after the example file is loaded, root_tags() is exactly
\* docs, documents, work and personal.
C7_ExampleRootTags ==
    (source_file = "example" /\ last_op.op = "new_browser")
      => GetRootTags(tagged) = {"docs", "documents", "work", "personal"}

\* The example file has been loaded: its two items are nodes.
C7_Witness ==
    /\ source_file = "example" /\ last_op.op = "new_browser"
    /\ {"docs/report.pdf", "docs/photo.png"} \subseteq tagged.nodes

\* The session over the example file, as created and after add_tag("documents").
ExampleNew == source_file = "example" /\ last_op.op = "new_browser"

ExampleDocuments ==
    /\ source_file = "example"
    /\ last_op.op = "add_tag" /\ last_op.u = "documents"
    /\ applied_tags = {"documents"}

\* C8 as stated: in the example session add_tag("documents") leaves
\* useful_tags = {work, personal}; a following add_tag("work") leaves
\* query() = {docs/report.pdf} and useful_tags empty.
C8_ExampleSessionAsStated ==
    /\ [][(ExampleNew /\ last_op'.op = "add_tag" /\ last_op'.u = "documents")
            => useful_tags' = {"work", "personal"}]_vars
    /\ [][(ExampleDocuments /\ last_op'.op = "add_tag" /\ last_op'.u = "work")
            => /\ QueryOutcomes(tagged', applied_tags')
                    = {[ok |-> TRUE, val |-> {"docs/report.pdf"}]}
               /\ useful_tags' = {}]_vars

\* C8 amended: add_tag("documents") leaves useful_tags = {docs, work,
\* personal}; a following add_tag("work") leaves query() = {docs/report.pdf}
\* and useful_tags = {docs}.
C8_ExampleSession ==
    /\ [][(ExampleNew /\ last_op'.op = "add_tag" /\ last_op'.u = "documents")
            => useful_tags' = {"docs", "work", "personal"}]_vars
    /\ [][(ExampleDocuments /\ last_op'.op = "add_tag" /\ last_op'.u = "work")
            => /\ QueryOutcomes(tagged', applied_tags')
                    = {[ok |-> TRUE, val |-> {"docs/report.pdf"}]}
               /\ useful_tags' = {"docs"}]_vars

\* add_tag("documents") and then add_tag("work") have returned in the example session.
C8_Witness ==
    /\ source_file = "example"
    /\ last_op.op = "add_tag" /\ last_op.u = "work" /\ last_op.ok
    /\ applied_tags = {"documents", "work"}

\* C9: add_tag with a tag that is not a node of the graph raises, in every
\* session state.
C9_UnknownTagRaises ==
    (last_op.op = "add_tag" /\ last_op.u \notin tagged.nodes) => ~last_op.ok

\* add_tag has been called with a tag that is not a node, in a session that
\* had tags of the graph applied.
C9_Witness ==
    /\ last_op.op = "add_tag" /\ last_op.u \notin tagged.nodes
    /\ applied_tags \cap tagged.nodes # {}

\* C10: with applied_tags empty query() returns the empty set and does not
\* raise; otherwise it returns leaf_items_tagged_by(applied_tags) (and
\* raises exactly when that query raises, on a tag that is not a node).
C10_QueryConvention ==
    last_op.op = "submit_query"
      => IF applied_tags = {}
         THEN last_op.ok /\ results = {}
         ELSE /\ last_op.ok <=> applied_tags \subseteq tagged.nodes
              /\ last_op.ok => results = LeafItemsTaggedBy(tagged, applied_tags)

\* query() has returned with nothing applied, over a graph that has leaf items.
C10_Witness ==
    /\ last_op.op = "submit_query" /\ applied_tags = {}
    /\ \E n \in tagged.nodes : OutDegree(tagged, n) = 0

\* The nodes v reaches in G along zero or more edges, by a closure of its
\* own over the edge set.
RECURSIVE Reaches(_, _)
Reaches(G, S) ==
    LET T == S \cup {e[2] : e \in {f \in G.edges : f[1] \in S}}
    IN  IF T = S THEN S ELSE Reaches(G, T)

\* C11: add_edge(u, v) raises exactly when u and v are both already nodes
\* and v reaches u (a node reaches itself); an edge it rejects would have
\* closed a cycle; and on the graph of the example file
\* add_edge("docs/report.pdf", "docs") is rejected.
C11_RaisesExactlyOnCycle ==
    [][last_op'.op = "add_edge"
         => LET u == last_op'.u
                v == last_op'.v
                added == [nodes |-> tagged.nodes \cup {u, v},
                          edges |-> tagged.edges \cup {<<u, v>>}]
            IN  /\ ~last_op'.ok <=> /\ u \in tagged.nodes
                                    /\ v \in tagged.nodes
                                    /\ u \in Reaches(tagged, {v})
                /\ ~last_op'.ok => \E n \in added.nodes :
                                      \E m \in added.nodes :
                                         /\ <<n, m>> \in added.edges
                                         /\ n \in Reaches(added, {m})
                /\ (source_file = "example" /\ u = "docs/report.pdf" /\ v = "docs")
                     => ~last_op'.ok]_vars

\* On the graph of the example file add_edge("docs/report.pdf", "docs") has raised.
C11_Witness ==
    /\ source_file = "example"
    /\ last_op.op = "add_edge" /\ ~last_op.ok
    /\ last_op.u = "docs/report.pdf" /\ last_op.v = "docs"
    /\ <<"work", "docs/report.pdf">> \in tagged.edges

\* The identifier made of the first j segments of a path, "/"-separated.
RECURSIVE PrefixId(_, _)
PrefixId(path, j) ==
    IF j = 1 THEN path[1] ELSE PrefixId(path, j - 1) \o "/" \o path[j]

FullId(path) == PrefixId(path, Len(path))

\* C12: after a record (item, tags) is ingested without error, the graph
\* has an edge from each proper path prefix of the item to the next longer
\* prefix, the same chain for each tag's path, and an edge from each full
\* tag identifier to the full item identifier.
C12_RecordEdges ==
    (last_op.op = "parse_line" /\ last_op.ok /\ last_op.line # <<>>)
      => LET line == last_op.line
         IN  /\ \A k \in 1..Len(line) : \A j \in 1..(Len(line[k]) - 1) :
                   <<PrefixId(line[k], j), PrefixId(line[k], j + 1)>> \in tagged.edges
             /\ \A k \in 2..Len(line) :
                   <<FullId(line[k]), FullId(line[1])>> \in tagged.edges

\* A record whose tag is a two-segment path has been ingested without error.
C12_Witness ==
    /\ last_op.op = "parse_line" /\ last_op.ok
    /\ Len(last_op.line) = 2
    /\ Len(last_op.line[2]) = 2
    /\ <<"a/b", FullId(last_op.line[1])>> \in tagged.edges

\* C13: after a list of records is loaded without error, the item of every
\* record (a record with zero tags and an item without "/" included), every
\* tag and every path prefix of each of them is a node of the graph.
C13_EveryIdentifierIsNode ==
    pc = "load"
      => \A i \in 1..Len(loaded) : \A k \in 1..Len(loaded[i]) :
            \A j \in 1..Len(loaded[i][k]) :
               PrefixId(loaded[i][k], j) \in tagged.nodes

\* C14: for every starting graph, every item and both orderings of two
\* tags, ingesting the record has the same outcome: both ingestions raise
\* the cycle error, or both succeed with the same node set and edge set.
C14_TagOrderIndependent ==
    [][(last_op'.op = "parse_line" /\ Len(last_op'.line) = 3)
         => LET line == last_op'.line
                other == ParseLine(tagged, <<line[1], line[3], line[2]>>)
            IN  /\ other.ok = last_op'.ok
                /\ other.ok => other.g = tagged']_vars

\* C15: when the ingestion of a record raises the cycle error, no node and
\* no edge of that record is committed: the graph is as it was before the
\* ingestion of that record began.
C15_RaiseCommitsNothing ==
    [][(last_op'.op = "parse_line" /\ ~last_op'.ok) => tagged' = tagged]_vars

\* C16: in every session state reached by add_tag calls that each apply a
\* tag of the current useful_tags, useful_tags and applied_tags are
\* disjoint: an applied tag never appears in useful_tags again.
C16_UsefulDisjointFromApplied ==
    pc = "browse" => useful_tags \cap applied_tags = {}

\* C17: a successful add_tag(tag) sets applied_tags to the old applied_tags
\* with tag added, and useful_tags to exactly the candidates c among the
\* old useful_tags without tag and the immediate children of tag for which
\* leaf_items_tagged_by(new applied_tags with c) is non-empty and a subset
\* of leaf_items_tagged_by(new applied_tags).
C17_AddTagUpdate ==
    [][(last_op'.op = "add_tag" /\ last_op'.ok)
         => LET tag == last_op'.u
                children == {m \in tagged.nodes : <<tag, m>> \in tagged.edges}
                candidates == (useful_tags \ {tag}) \cup children
                new_results == LeafItemsTaggedBy(tagged, applied_tags')
            IN  /\ applied_tags' = applied_tags \cup {tag}
                /\ useful_tags' =
                     {c \in candidates :
                        LET narrowed == LeafItemsTaggedBy(tagged, applied_tags' \cup {c})
                        IN  narrowed # {} /\ narrowed \subseteq new_results}]_vars

\* A successful add_tag has left an immediate child of the applied tag
\* in useful_tags.
C17_Witness ==
    /\ last_op.op = "add_tag" /\ last_op.ok
    /\ \E c \in useful_tags : <<last_op.u, c>> \in tagged.edges /\ c # last_op.u
    /\ applied_tags = {last_op.u}

\* C18: an add_tag(tag) that fails because tag is not a node of the graph
\* leaves applied_tags and useful_tags as they were before the call, so
\* that a later query() returns what it returned before the failed call.
C18_FailedAddTagLeavesSession ==
    [][(last_op'.op = "add_tag" /\ last_op'.u \notin tagged.nodes)
         => /\ ~last_op'.ok
            /\ applied_tags' = applied_tags
            /\ useful_tags' = useful_tags
            /\ QueryOutcomes(tagged, applied_tags') = QueryOutcomes(tagged, applied_tags)]_vars

\* C19: the two tagging queries agree: for every node i of out-degree zero
\* and every node t of the graph, t = i included, i is in
\* leaf_items_tagged_by({t}) if and only if is_tagged_by(i, t) is true.
C19_QueriesAgree ==
    (/\ last_op.op = "is_tagged_by"
     /\ \A m \in tagged.nodes : <<last_op.u, m>> \notin tagged.edges)
      => (last_op.u \in results <=> last_op.ok)

\* C19, amended: for every node i of out-degree zero and every node t other
\* than i, i is in leaf_items_tagged_by({t}) if and only if
\* is_tagged_by(i, t) is true; for t = i, is_tagged_by(i, i) is true and i
\* is not in leaf_items_tagged_by({i}).
C19_QueriesAgreeOnDistinct ==
    (/\ last_op.op = "is_tagged_by"
     /\ \A m \in tagged.nodes : <<last_op.u, m>> \notin tagged.edges)
      => IF last_op.u # last_op.v
         THEN last_op.u \in results <=> last_op.ok
         ELSE last_op.ok /\ last_op.u \notin results

\* Both queries were asked about a leaf item and a tag, other than the
\* item, that tags it.
C19_Witness ==
    /\ last_op.op = "is_tagged_by"
    /\ last_op.u # last_op.v
    /\ \A m \in tagged.nodes : <<last_op.u, m>> \notin tagged.edges
    /\ last_op.ok
    /\ last_op.u \in results

\* C20: for every graph a load that completed without error has produced,
\* every tag of a new session's initial useful_tags (every root tag) has a
\* leaf item: leaf_items_tagged_by({t}) is non-empty.
C20_RootTagsHaveLeafItems ==
    last_op.op = "new_browser"
      => \A t \in useful_tags : LeafItemsTaggedBy(tagged, {t}) # {}

=============================================================================
